---------------------------- MODULE Spec2Model ----------------------------
(***************************************************************************)
(* The generational update engine of src/bin/no_bevy_2d.rs: the Automaton  *)
(* iterator, its neighbourhood sampling, the rule engine (Rules::check,    *)
(* RuleSet, Action) and the Cell lifecycle.                                *)
(*                                                                         *)
(* Vec indices are 0-based in the source and stay 0-based here: a Grid is  *)
(* a function from 0..rows-1 to functions from 0..cols-1 to Cells.         *)
(***************************************************************************)
EXTENDS Integers, Sequences, FiniteSets

(***************************************************************************)
(* Bounds of the model.                                                    *)
(***************************************************************************)
\* largest number of cells (row_count * col_count) of a grid an automaton is
\* built with
MaxCells == 9
\* largest number of cells of an initial grid that holds Dying cells
MaxSmallCells == 4
\* largest ticks_till_death of a Dying cell of an initial grid
MaxTicks == 2
\* largest generation an automaton is built with
MaxGen0 == 1
\* number of calls to Automaton::next that are followed
MaxCalls == 3
\* number of calls that are followed where single calls are examined
MaxStepCalls == 1
\* largest row_count, col_count, number of rows and length of a row handed to
\* the builder where it is given any dimensions
MaxBuildSide == 2

(***************************************************************************)
(* Cell (enum Cell) and its predicates.                                    *)
(***************************************************************************)
\* Cell::Dead, the #[default] variant
Dead == [state |-> "Dead", ticks_till_death |-> 0]

\* Cell::Alive
Alive == [state |-> "Alive", ticks_till_death |-> 0]

\* Cell::Dying { ticks_till_death }
Dying(ticks) == [state |-> "Dying", ticks_till_death |-> ticks]

\* Cell::default()
Cell_default == Dead

\* Cell::is_dead
is_dead(cell) == cell.state = "Dead"

\* an is_alive that holds of Cell::Alive only
is_alive_only_alive(cell) == cell.state = "Alive"

\* Cell::is_alive: every cell that is not Dead, a Dying one included
is_alive(cell) == ~is_dead(cell)

\* Cell::is_dying
is_dying(cell) == cell.state = "Dying"

\* const TICKS_TILL_DEATH inside Cell::dying_cell
TICKS_TILL_DEATH == 3

\* Cell::dying_cell
dying_cell == Dying(TICKS_TILL_DEATH)

(***************************************************************************)
(* Action and impl From<Action> for Cell.                                  *)
(***************************************************************************)
Action == {"Live", "Die"}

\* a conversion that starts the countdown on Die
Cell_from_dying(action) == IF action = "Live" THEN Alive ELSE dying_cell

\* impl From<Action> for Cell: Live => Alive, Die => Dead
Cell_from(action) == IF action = "Live" THEN Alive ELSE Dead

(***************************************************************************)
(* Rules and RuleSet.                                                      *)
(***************************************************************************)
\* Rules::Range(start..=end)
Range(lo, hi) == [rule |-> "Range", start |-> lo, end |-> hi, singles |-> << >>]

\* Rules::Singles(vec)
Singles(vec) == [rule |-> "Singles", start |-> 0, end |-> 0, singles |-> vec]

\* iterable.contains(&alive_neighbors) in Rules::check: the iterable is the
\* inclusive range (empty when start > end) or the elements of the vector
contains(rule, alive_neighbors) ==
    IF rule.rule = "Range"
    THEN alive_neighbors \in rule.start .. rule.end
    ELSE \E i \in DOMAIN rule.singles : rule.singles[i] = alive_neighbors

\* a check that overwrites the cell before it looks at the count
check_writes_unmatched(rule, alive_neighbors, cell, action) ==
    [cell |-> Cell_from(action),
     flow |-> IF contains(rule, alive_neighbors) THEN "Break" ELSE "Continue"]

\* Rules::check: on a match the cell is overwritten and Break is returned
check(rule, alive_neighbors, cell, action) ==
    IF contains(rule, alive_neighbors)
    THEN [cell |-> Cell_from(action), flow |-> "Break"]
    ELSE [cell |-> cell, flow |-> "Continue"]

\* an evaluation that falls back to Cell::default() when no pair matches
RECURSIVE any_check_default(_, _, _, _)
any_check_default(rules, i, alive_neighbors, cell) ==
    IF i > Len(rules)
    THEN Cell_default
    ELSE LET r == check(rules[i][1], alive_neighbors, cell, rules[i][2])
         IN  IF r.flow = "Break"
             THEN r.cell
             ELSE any_check_default(rules, i + 1, alive_neighbors, r.cell)

\* an evaluation that does not stop at a Break: every matching pair
\* overwrites the cell, so the last one wins
RECURSIVE any_check_last(_, _, _, _)
any_check_last(rules, i, alive_neighbors, cell) ==
    IF i > Len(rules)
    THEN cell
    ELSE any_check_last(rules, i + 1, alive_neighbors,
             check(rules[i][1], alive_neighbors, cell, rules[i][2]).cell)

\* rule_set.iter().any(|(rule, action)| rule.check(..).is_break()) from the
\* i-th pair on: any stops at the first pair whose check returns Break
RECURSIVE any_check(_, _, _, _)
any_check(rules, i, alive_neighbors, cell) ==
    IF i > Len(rules)
    THEN cell
    ELSE LET r == check(rules[i][1], alive_neighbors, cell, rules[i][2])
         IN  IF r.flow = "Break"
             THEN r.cell
             ELSE any_check(rules, i + 1, alive_neighbors, r.cell)

\* RuleSet::default
RuleSet_default ==
    [alive |-> << <<Range(0, 1), "Die">>,
                  <<Range(2, 3), "Live">>,
                  <<Range(4, 9), "Die">> >>,
     dead  |-> << <<Singles(<<3>>), "Live">> >>]

\* the alive-rules overlap: the counts 2 and 3 match the first and the second
\* pair, and the counts above 3 match none; there are no dead-rules
RuleSet_overlap ==
    [alive |-> << <<Range(0, 3), "Die">>, <<Range(2, 3), "Live">> >>,
     dead  |-> << >>]

\* nothing ever matches: no alive-rules, and dead-rules with an empty set and
\* an empty span
RuleSet_nomatch ==
    [alive |-> << >>,
     dead  |-> << <<Singles(<< >>), "Live">>, <<Range(1, 0), "Live">> >>]

\* the dead-rules match the count 0, and a Die pair overlaps the Live pair
\* after it; the alive-rules overlap, Live first
RuleSet_zero ==
    [alive |-> << <<Singles(<<1, 2>>), "Live">>, <<Range(0, 8), "Die">> >>,
     dead  |-> << <<Range(0, 0), "Live">>, <<Range(2, 4), "Die">>,
                  <<Singles(<<1, 3>>), "Live">> >>]

\* the alive-rules of the default rule set and no dead-rules
RuleSet_nobirth == [alive |-> RuleSet_default.alive, dead |-> << >>]

\* the rule sets an automaton is built with
RuleSets == << RuleSet_default, RuleSet_overlap, RuleSet_nomatch, RuleSet_zero >>

(***************************************************************************)
(* Automaton.  An Automaton value is a record of the fields of the struct; *)
(* self is the one next is called on.                                      *)
(***************************************************************************)
\* the fields of struct Automaton, the values next has returned so far, in
\* order, and the automaton as the builder made it
VARIABLES generation, row_count, col_count, grid, neighborhood_type, rule_set,
          emitted, built

vars == <<generation, row_count, col_count, grid, neighborhood_type, rule_set,
          emitted, built>>

\* struct Automaton: the automaton the variables hold
Automaton ==
    [generation        |-> generation,
     row_count         |-> row_count,
     col_count         |-> col_count,
     grid              |-> grid,
     neighborhood_type |-> neighborhood_type,
     rule_set          |-> rule_set]

\* enum Neighborhood
Neighborhood == {"Moore", "VonNeumann"}

\* usize::saturating_sub
saturating_sub(x, y) == IF x >= y THEN x - y ELSE 0

\* usize::saturating_add; it saturates at usize::MAX only, which no index of a
\* grid of the model comes near
saturating_add(x, y) == x + y

\* Ord::min
min(x, y) == IF x <= y THEN x ELSE y

\* the positions looked up when the row window is not clamped to the last row
grid_indices_unclamped(self, row, col) ==
    LET window ==
            { p \in (saturating_sub(row, 1) .. saturating_add(row, 1))
                     \X
                     (saturating_sub(col, 1) ..
                        min(saturating_add(col, 1), self.col_count - 1)) :
                p[1] # row \/ p[2] # col }
    IN  IF self.neighborhood_type = "Moore"
        THEN window
        ELSE { p \in window : p[1] = row \/ p[2] = col }

\* the positions (irow, icol) grid_traverser looks up for the cell (row, col)
\* with self.grid[irow].get(icol): the 3 x 3 window clamped to
\* 0 ..= row_count - 1 and 0 ..= col_count - 1, without the cell itself, for
\* VonNeumann without the diagonals
grid_indices(self, row, col) ==
    LET window ==
            { p \in (saturating_sub(row, 1) ..
                        min(saturating_add(row, 1), self.row_count - 1))
                     \X
                     (saturating_sub(col, 1) ..
                        min(saturating_add(col, 1), self.col_count - 1)) :
                p[1] # row \/ p[2] # col }
    IN  IF self.neighborhood_type = "Moore"
        THEN window
        ELSE { p \in window : p[1] = row \/ p[2] = col }

\* a traverser on a torus: the window wraps around the edges of the grid
grid_traverser_wrap(self, row, col) ==
    LET window ==
            { p \in { <<(row + dr) % self.row_count, (col + dc) % self.col_count>> :
                        dr \in {-1, 0, 1}, dc \in {-1, 0, 1} } :
                p[1] # row \/ p[2] # col }
    IN  IF self.neighborhood_type = "Moore"
        THEN window
        ELSE { p \in window : p[1] = row \/ p[2] = col }

\* a traverser that keeps the cell (row, col) itself
grid_traverser_with_self(self, row, col) ==
    LET window ==
            (saturating_sub(row, 1) ..
                min(saturating_add(row, 1), self.row_count - 1))
            \X
            (saturating_sub(col, 1) ..
                min(saturating_add(col, 1), self.col_count - 1))
        kept ==
            IF self.neighborhood_type = "Moore"
            THEN window
            ELSE { p \in window : p[1] = row \/ p[2] = col }
    IN  { p \in kept : p[2] \in DOMAIN self.grid[p[1]] }

\* the positions grid_traverser yields for the cell (row, col): of the
\* positions it looks up, those self.grid[irow].get(icol) finds
grid_traverser(self, row, col) ==
    { p \in grid_indices(self, row, col) : p[2] \in DOMAIN self.grid[p[1]] }

\* alive_neighbors: the sum of usize::from(neighbor.is_alive()) over the
\* traverser, whose positions are pairwise distinct
alive_neighbors(self, row, col) ==
    Cardinality({ p \in grid_traverser(self, row, col) :
                    is_alive(self.grid[p[1]][p[2]]) })

\* a loop body that tests the countdown before the decrement for 0
loop_body_tests_old_ticks(self, temp_grid, row, col) ==
    LET cell == self.grid[row][col]
    IN  IF cell.state \in {"Dead", "Alive"}
        THEN LET rules == IF is_dead(cell)
                          THEN self.rule_set.dead
                          ELSE self.rule_set.alive
             IN  [temp_grid EXCEPT ![row][col] =
                      any_check(rules, 1, alive_neighbors(self, row, col),
                                temp_grid[row][col])]
        ELSE LET new_ticks == cell.ticks_till_death - 1
             IN  [temp_grid EXCEPT ![row][col] =
                      IF cell.ticks_till_death = 0
                      THEN Cell_default
                      ELSE Dying(new_ticks)]

\* a loop body that updates the grid in place: it reads the cell and counts
\* its neighbours in the grid it writes
loop_body_in_place(self, temp_grid, row, col) ==
    LET cell == temp_grid[row][col]
    IN  IF cell.state \in {"Dead", "Alive"}
        THEN LET rules == IF is_dead(cell)
                          THEN self.rule_set.dead
                          ELSE self.rule_set.alive
             IN  [temp_grid EXCEPT ![row][col] =
                      any_check(rules, 1,
                                alive_neighbors([self EXCEPT !.grid = temp_grid],
                                                row, col),
                                temp_grid[row][col])]
        ELSE LET new_ticks == cell.ticks_till_death - 1
             IN  [temp_grid EXCEPT ![row][col] =
                      IF new_ticks = 0 THEN Cell_default ELSE Dying(new_ticks)]

\* a loop body that picks the half of the rule set the wrong way round
loop_body_swapped_halves(self, temp_grid, row, col) ==
    LET cell == self.grid[row][col]
    IN  IF cell.state \in {"Dead", "Alive"}
        THEN LET rules == IF is_dead(cell)
                          THEN self.rule_set.alive
                          ELSE self.rule_set.dead
             IN  [temp_grid EXCEPT ![row][col] =
                      any_check(rules, 1, alive_neighbors(self, row, col),
                                temp_grid[row][col])]
        ELSE LET new_ticks == cell.ticks_till_death - 1
             IN  [temp_grid EXCEPT ![row][col] =
                      IF new_ticks = 0 THEN Cell_default ELSE Dying(new_ticks)]

\* a loop body that asks the alive-rules about a Dying cell too, as about any
\* cell that is_alive
loop_body_dying_by_rules(self, temp_grid, row, col) ==
    LET cell == self.grid[row][col]
        rules == IF is_dead(cell) THEN self.rule_set.dead ELSE self.rule_set.alive
    IN  [temp_grid EXCEPT ![row][col] =
             any_check(rules, 1, alive_neighbors(self, row, col),
                       temp_grid[row][col])]

\* the body of the for loop of next for the cell (row, col): it reads
\* self.grid and writes temp_grid[row][col]
loop_body(self, temp_grid, row, col) ==
    LET cell == self.grid[row][col]
    IN  IF cell.state \in {"Dead", "Alive"}
        THEN LET rules == IF is_dead(cell)
                          THEN self.rule_set.dead
                          ELSE self.rule_set.alive
             IN  [temp_grid EXCEPT ![row][col] =
                      any_check(rules, 1, alive_neighbors(self, row, col),
                                temp_grid[row][col])]
        ELSE LET new_ticks == cell.ticks_till_death - 1
             IN  [temp_grid EXCEPT ![row][col] =
                      IF new_ticks = 0 THEN Cell_default ELSE Dying(new_ticks)]

\* the for loop of next over iproduct!(0..row_count, 0..col_count), rows
\* outermost, from the idx-th pair on
RECURSIVE for_loop(_, _, _)
for_loop(self, temp_grid, idx) ==
    IF idx >= self.row_count * self.col_count
    THEN temp_grid
    ELSE for_loop(self,
                  loop_body(self, temp_grid,
                            idx \div self.col_count, idx % self.col_count),
                  idx + 1)

\* whether a call of next on self panics with an index out of bounds: the
\* loop indexes self.grid[row][col] for every pair of
\* iproduct!(0..row_count, 0..col_count); the rows self.grid[irow] the
\* traverser indexes are clamped to 0 ..= row_count - 1 and so are rows the
\* loop indexes as well
index_panics(self) ==
    \E row \in 0 .. self.row_count - 1, col \in 0 .. self.col_count - 1 :
        \/ row \notin DOMAIN self.grid
        \/ col \notin DOMAIN self.grid[row]

\* Option::None, the value of Iterator::next that ends the sequence
None == [none |-> TRUE]

\* a next with a termination policy: it returns None when no cell of the grid
\* is alive
Automaton_next_ends_when_dead ==
    /\ ~index_panics(Automaton)
    /\ IF \A r \in DOMAIN grid : \A c \in DOMAIN grid[r] : is_dead(grid[r][c])
       THEN /\ emitted' = Append(emitted, None)
            /\ UNCHANGED <<generation, grid>>
       ELSE LET self == [Automaton EXCEPT !.generation = generation + 1]
                temp_grid == for_loop(self, self.grid, 0)
            IN  /\ generation' = self.generation
                /\ grid' = temp_grid
                /\ emitted' = Append(emitted,
                       [generation        |-> self.generation,
                        row_count         |-> self.row_count,
                        col_count         |-> self.col_count,
                        grid              |-> self.grid,
                        neighborhood_type |-> self.neighborhood_type,
                        rule_set          |-> self.rule_set])
    /\ UNCHANGED <<row_count, col_count, neighborhood_type, rule_set, built>>

\* a next that fills the fields of the returned Automaton other than the grid
\* and the generation from defaults instead of from self
Automaton_next_returns_defaults ==
    /\ ~index_panics(Automaton)
    /\ LET self == [Automaton EXCEPT !.generation = generation + 1]
           temp_grid == for_loop(self, self.grid, 0)
       IN  /\ generation' = self.generation
           /\ grid' = temp_grid
           /\ emitted' = Append(emitted,
                  [generation        |-> self.generation,
                   row_count         |-> self.row_count,
                   col_count         |-> self.col_count,
                   grid              |-> self.grid,
                   neighborhood_type |-> "Moore",
                   rule_set          |-> RuleSet_default])
    /\ UNCHANGED <<row_count, col_count, neighborhood_type, rule_set, built>>

\* a next that returns the grid it has just computed
Automaton_next_returns_new ==
    /\ LET self == [Automaton EXCEPT !.generation = generation + 1]
           temp_grid == for_loop(self, self.grid, 0)
       IN  /\ generation' = self.generation
           /\ grid' = temp_grid
           /\ emitted' = Append(emitted, [self EXCEPT !.grid = temp_grid])
    /\ UNCHANGED <<row_count, col_count, neighborhood_type, rule_set, built>>

\* a next that returns the counter as it was before the increment
Automaton_next_returns_old_generation ==
    /\ LET self == [Automaton EXCEPT !.generation = generation + 1]
           temp_grid == for_loop(self, self.grid, 0)
       IN  /\ generation' = self.generation
           /\ grid' = temp_grid
           /\ emitted' = Append(emitted, [self EXCEPT !.generation = generation])
    /\ UNCHANGED <<row_count, col_count, neighborhood_type, rule_set, built>>

\* Automaton::next: the counter is incremented, the next grid is computed
\* into a clone of the grid and swapped in, and the returned Automaton
\* carries the swapped-out grid and copies of the other fields; a call that
\* panics returns nothing
Automaton_next ==
    /\ ~index_panics(Automaton)
    /\ LET self == [Automaton EXCEPT !.generation = generation + 1]
           temp_grid == for_loop(self, self.grid, 0)
       IN  /\ generation' = self.generation
           /\ grid' = temp_grid
           /\ emitted' = Append(emitted,
                  [generation        |-> self.generation,
                   row_count         |-> self.row_count,
                   col_count         |-> self.col_count,
                   grid              |-> self.grid,
                   neighborhood_type |-> self.neighborhood_type,
                   rule_set          |-> self.rule_set])
    /\ UNCHANGED <<row_count, col_count, neighborhood_type, rule_set, built>>

\* the cells of an initial grid
Cells == {Dead, Alive} \cup { Dying(t) : t \in 1 .. MaxTicks }

\* the grids of rows x cols cells a caller hands to the builder: of any
\* cells when the grid is small, of Dead and Alive cells otherwise
Grids(rows, cols) ==
    [0 .. rows - 1 -> [0 .. cols - 1 ->
        IF rows * cols <= MaxSmallCells THEN Cells ELSE {Dead, Alive}]]

\* the automaton as the builder made it, kept for reference
Built == built = Automaton

\* Automaton::builder().row_count(..).col_count(..).grid(..)
\* .neighborhood_type(..).rule_set(..).build(): the generation is left to its
\* default, 0, as in main and in the tests; the grid has row_count rows of
\* col_count cells
Init ==
    /\ generation = 0
    /\ row_count \in 1 .. MaxCells
    /\ col_count \in 1 .. MaxCells
    /\ row_count * col_count <= MaxCells
    /\ grid \in Grids(row_count, col_count)
    /\ neighborhood_type \in Neighborhood
    /\ \E i \in DOMAIN RuleSets : rule_set = RuleSets[i]
    /\ emitted = << >>
    /\ Built

\* the builder with the default rule set and with any generation
InitLife ==
    /\ generation \in 0 .. MaxGen0
    /\ row_count \in 1 .. MaxCells
    /\ col_count \in 1 .. MaxCells
    /\ row_count * col_count <= MaxCells
    /\ grid \in Grids(row_count, col_count)
    /\ neighborhood_type \in Neighborhood
    /\ rule_set = RuleSet_default
    /\ emitted = << >>
    /\ Built

\* the builder with a rule set that has no dead-rules
InitNoBirth ==
    /\ generation = 0
    /\ row_count \in 1 .. MaxCells
    /\ col_count \in 1 .. MaxCells
    /\ row_count * col_count <= MaxCells
    /\ grid \in Grids(row_count, col_count)
    /\ neighborhood_type \in Neighborhood
    /\ rule_set \in {RuleSet_overlap, RuleSet_nobirth}
    /\ emitted = << >>
    /\ Built

\* the builder with a grid small enough to hold cells of any kind, Dying ones
\* included
InitDying ==
    /\ generation = 0
    /\ row_count \in 1 .. MaxSmallCells
    /\ col_count \in 1 .. MaxSmallCells
    /\ row_count * col_count <= MaxSmallCells
    /\ grid \in Grids(row_count, col_count)
    /\ neighborhood_type \in Neighborhood
    /\ \E i \in DOMAIN RuleSets : rule_set = RuleSets[i]
    /\ emitted = << >>
    /\ Built

\* the grids a caller can hand to the builder: up to MaxBuildSide rows, each
\* of up to MaxBuildSide Dead or Alive cells, the rows of any lengths
BuilderGrids ==
    LET rows == UNION { [0 .. n - 1 -> {Dead, Alive}] : n \in 0 .. MaxBuildSide }
    IN  UNION { [0 .. n - 1 -> rows] : n \in 0 .. MaxBuildSide }

\* Automaton::builder()...build() as derived by TypedBuilder: every field is
\* taken as given or defaulted, and nothing relates row_count and col_count
\* to the grid
InitBuilder ==
    /\ generation = 0
    /\ row_count \in 0 .. MaxBuildSide
    /\ col_count \in 0 .. MaxBuildSide
    /\ grid \in BuilderGrids
    /\ neighborhood_type \in Neighborhood
    /\ rule_set = RuleSet_default
    /\ emitted = << >>
    /\ Built

\* the caller takes up to MaxCalls values from the iterator
Next == Len(emitted) < MaxCalls /\ Automaton_next

\* the caller takes up to MaxStepCalls values from the iterator
NextStep == Len(emitted) < MaxStepCalls /\ Automaton_next

\* automata built with any of the rule sets
Spec == Init /\ [][Next]_vars

\* automata built with any of the rule sets, for the effect of a single call
SpecStep == Init /\ [][NextStep]_vars

\* Game of Life automata built with any generation
SpecLife == InitLife /\ [][Next]_vars

\* automata built with a rule set that has no dead-rules
SpecNoBirth == InitNoBirth /\ [][Next]_vars

\* automata built with any of the rule sets, for the order of the updates
\* within a single call
SpecSweep == Init /\ [][NextStep]_vars

\* automata built with a grid of cells of any kind
SpecDying == InitDying /\ [][Next]_vars

\* automata built from any row_count, col_count and grid
SpecBuilder == InitBuilder /\ [][Next]_vars

(***************************************************************************)
(* Properties.  After a call, the last value next returned holds the grid  *)
(* the call read and the configuration it ran under, and the variables     *)
(* hold the grid the call computed.                                        *)
(***************************************************************************)
\* the automaton the last call of next read: the last value returned
Pre == emitted[Len(emitted)]

\* next has been called at least once
Called == Len(emitted) >= 1

\* the positions of the grid of the automaton a
Positions(a) == (0 .. a.row_count - 1) \X (0 .. a.col_count - 1)

\* every cell of the grid of a is Dead or Alive
DeadOrAlive(a) ==
    \A p \in Positions(a) : a.grid[p[1]][p[2]] \in {Dead, Alive}

\* the displacements to the 8 surrounding positions (Moore) or to the 4
\* orthogonally adjacent positions (VonNeumann)
Offsets(neighborhood) ==
    IF neighborhood = "Moore"
    THEN ({-1, 0, 1} \X {-1, 0, 1}) \ {<<0, 0>>}
    ELSE {<<-1, 0>>, <<1, 0>>, <<0, -1>>, <<0, 1>>}

\* the positions of the grid of a among those around (r, c)
Around(a, r, c) ==
    { p \in { <<r + o[1], c + o[2]>> : o \in Offsets(a.neighborhood_type) } :
        /\ p[1] >= 0 /\ p[1] < a.row_count
        /\ p[2] >= 0 /\ p[2] < a.col_count }

\* the live cells of the grid of a around (r, c)
LiveAround(a, r, c) ==
    Cardinality({ p \in Around(a, r, c) : a.grid[p[1]][p[2]] = Alive })

\* Conway's Game of Life on a grid with hard edges: the successor of the cell
\* (r, c) of the grid of a
LifeCell(a, r, c) ==
    LET n == LiveAround(a, r, c)
    IN  IF a.grid[r][c] = Alive
        THEN IF n \in {2, 3} THEN Alive ELSE Dead
        ELSE IF n = 3 THEN Alive ELSE Dead

VerticalBlinker ==
    [r \in 0 .. 2 |-> [c \in 0 .. 2 |-> IF c = 1 THEN Alive ELSE Dead]]

\* the horizontal blinker: the middle row is Alive
HorizontalBlinker ==
    [r \in 0 .. 2 |-> [c \in 0 .. 2 |-> IF r = 1 THEN Alive ELSE Dead]]

\* the automaton was built as primitive_test_1 builds it
BuiltBlinker ==
    /\ built.row_count = 3 /\ built.col_count = 3
    /\ built.grid = VerticalBlinker
    /\ built.neighborhood_type = "Moore"
    /\ built.rule_set = RuleSet_default

C3_DyingCountdown ==
    Called =>
        \A p \in Positions(Pre) :
            LET cell == Pre.grid[p[1]][p[2]]
                n == cell.ticks_till_death
            IN  is_dying(cell) =>
                    /\ n > 1 => grid[p[1]][p[2]] = Dying(n - 1)
                    /\ n = 1 => grid[p[1]][p[2]] = Dead

\* C3 witness: under a rule set whose alive-rules match the count 1, a call
\* turned a Dying(2) cell with one live neighbour into Dying(1) and a
\* Dying(1) cell with one live neighbour into Dead.
C3_Witness ==
    /\ Called
    /\ Pre.rule_set = RuleSet_zero
    /\ \E p, q \in Positions(Pre) :
          /\ Pre.grid[p[1]][p[2]] = Dying(2) /\ grid[p[1]][p[2]] = Dying(1)
          /\ alive_neighbors(Pre, p[1], p[2]) = 1
          /\ Pre.grid[q[1]][q[2]] = Dying(1) /\ grid[q[1]][q[2]] = Dead
          /\ alive_neighbors(Pre, q[1], q[2]) = 1

\* the half of the rule set of a that next evaluates for the cell
Half(a, cell) == IF is_dead(cell) THEN a.rule_set.dead ELSE a.rule_set.alive

\* the indices of the pairs of rules whose rule matches the count n
Matching(rules, n) == { i \in DOMAIN rules : contains(rules[i][1], n) }

\* the least index of a non-empty set of indices
First(indices) == CHOOSE i \in indices : \A j \in indices : i <= j

\* C4: for a Dead or Alive cell the pairs of the half of the rule set that
\* matches its state are evaluated in order, and the action of the first pair
\* whose rule matches the alive-neighbour count is the one applied, whatever
\* later pairs match too.
C4_FirstMatchWins ==
    Called =>
        \A p \in Positions(Pre) :
            LET cell == Pre.grid[p[1]][p[2]]
                rules == Half(Pre, cell)
                m == Matching(rules, alive_neighbors(Pre, p[1], p[2]))
            IN  (cell \in {Dead, Alive} /\ m # {}) =>
                    grid[p[1]][p[2]] = Cell_from(rules[First(m)][2])

\* C4 witness: with the alive-rules (Range 0..=3, Die), (Range 2..=3, Live)
\* an Alive cell with 2 live neighbours, matched by both pairs, got the Die
\* action of the first pair and is not Alive.
C4_Witness ==
    /\ Called
    /\ Pre.rule_set = RuleSet_overlap
    /\ \E p \in Positions(Pre) :
          /\ Pre.grid[p[1]][p[2]] = Alive
          /\ alive_neighbors(Pre, p[1], p[2]) = 2
          /\ Matching(Pre.rule_set.alive, 2) = {1, 2}
          /\ grid[p[1]][p[2]] = Cell_from("Die")
          /\ grid[p[1]][p[2]] # Alive

\* the largest alive-neighbour count the claim allows at (r, c): 3, 5, 8 at a
\* corner, at another edge cell, in the interior under Moore, and 2, 3, 4
\* under VonNeumann
CountLimit(a, r, c) ==
    LET edge_row == r \in {0, a.row_count - 1}
        edge_col == c \in {0, a.col_count - 1}
        moore == a.neighborhood_type = "Moore"
    IN  IF edge_row /\ edge_col THEN (IF moore THEN 3 ELSE 2)
        ELSE IF edge_row \/ edge_col THEN (IF moore THEN 5 ELSE 3)
        ELSE (IF moore THEN 8 ELSE 4)

\* C5: the neighbours next counts for a cell are exactly the cells of the grid
\* among the 8 surrounding positions (Moore) or the 4 orthogonally adjacent
\* ones (VonNeumann), never the cell itself, a wrapped-around or a substituted
\* cell, so the alive-neighbour count is at most 3, 5, 8 (Moore) and 2, 3, 4
\* (VonNeumann) at a corner, at another edge cell and in the interior.
C5_HardEdgeNeighbours ==
    Called =>
        \A p \in Positions(Pre) :
            LET counted == grid_traverser(Pre, p[1], p[2])
                around == Around(Pre, p[1], p[2])
                count == alive_neighbors(Pre, p[1], p[2])
            IN  /\ counted = around
                /\ p \notin counted
                /\ count = Cardinality({ q \in around :
                                           Pre.grid[q[1]][q[2]] # Dead })
                /\ count <= CountLimit(Pre, p[1], p[2])

\* C5 witness: a call on a 3 x 3 grid under Moore that counted 3 live
\* neighbours at a corner, 5 at an edge cell and 8 in the interior.
C5_Witness ==
    /\ Called
    /\ Pre.row_count = 3 /\ Pre.col_count = 3
    /\ Pre.neighborhood_type = "Moore"
    /\ alive_neighbors(Pre, 0, 0) = 3
    /\ alive_neighbors(Pre, 0, 1) = 5
    /\ alive_neighbors(Pre, 1, 1) = 8

\* C5 under VonNeumann: a call on a 3 x 3 grid that counted 2, 3 and 4.
C5_WitnessVonNeumann ==
    /\ Called
    /\ Pre.row_count = 3 /\ Pre.col_count = 3
    /\ Pre.neighborhood_type = "VonNeumann"
    /\ alive_neighbors(Pre, 2, 2) = 2
    /\ alive_neighbors(Pre, 1, 0) = 3
    /\ alive_neighbors(Pre, 1, 1) = 4

\* C6: the value the k-th call of next returns carries the grid as it was
\* before that call: the first returned grid is the grid the automaton was
\* built with, and every call returns the grid the automaton held when it was
\* called, which is the grid the call before it computed.
C6_ReturnsGridBeforeCall ==
    /\ [](Called => emitted[1].grid = built.grid)
    /\ [][/\ Len(emitted') = Len(emitted) + 1
          /\ emitted'[Len(emitted')].grid = grid]_vars

\* C6 witness: two calls, the second of which returned the grid the first one
\* computed, a grid that differs from the initial grid and from the grid the
\* automaton holds now.
C6_Witness ==
    /\ Len(emitted) = 2
    /\ emitted[1].grid = built.grid
    /\ emitted[2].grid # built.grid
    /\ emitted[2].grid # grid

\* C7: each call of next increases the generation counter by exactly 1: an
\* automaton built with generation g0 holds g0 + k after k calls, and the k-th
\* value returned has generation g0 + k.
C7_GenerationCounts ==
    /\ generation = built.generation + Len(emitted)
    /\ \A k \in 1 .. Len(emitted) :
          emitted[k].generation = built.generation + k

\* C7 witness: an automaton built with generation 1 has returned the
\* generations 2, 3 and 4.
C7_Witness ==
    /\ built.generation = 1
    /\ Len(emitted) >= 3
    /\ emitted[1].generation = 2
    /\ emitted[2].generation = 3
    /\ emitted[3].generation = 4

\* C8: when a rule whose action is Die matches a cell, the cell's next state
\* is Dying with a countdown of 3 (Cell::dying_cell), not Dead.
C8_DieStartsCountdown ==
    Called =>
        \A p \in Positions(Pre) :
            LET cell == Pre.grid[p[1]][p[2]]
                rules == Half(Pre, cell)
                m == Matching(rules, alive_neighbors(Pre, p[1], p[2]))
            IN  (cell \in {Dead, Alive} /\ m # {} /\ rules[First(m)][2] = "Die") =>
                    /\ grid[p[1]][p[2]] = dying_cell
                    /\ grid[p[1]][p[2]] # Dead

\* C9: when no pair of the half of the rule set that applies to a Dead or
\* Alive cell matches its alive-neighbour count (the half may be empty, a
\* Range may have an empty span, a Singles set may be empty), the cell is
\* after the call what it was before.
C9_NoMatchKeepsCell ==
    Called =>
        \A p \in Positions(Pre) :
            LET cell == Pre.grid[p[1]][p[2]]
                m == Matching(Half(Pre, cell), alive_neighbors(Pre, p[1], p[2]))
            IN  (cell \in {Dead, Alive} /\ m = {}) => grid[p[1]][p[2]] = cell

\* C9 witness: under the rule set with no alive-rules and with dead-rules of
\* an empty Singles set and an empty Range, a call left an Alive cell Alive and
\* a Dead cell with a live neighbour Dead.
C9_Witness ==
    /\ Called
    /\ Pre.rule_set = RuleSet_nomatch
    /\ Pre.rule_set.alive = << >>
    /\ \E p, q \in Positions(Pre) :
          /\ Pre.grid[p[1]][p[2]] = Alive /\ grid[p[1]][p[2]] = Alive
          /\ Pre.grid[q[1]][q[2]] = Dead /\ grid[q[1]][q[2]] = Dead
          /\ alive_neighbors(Pre, q[1], q[2]) = 1

\* C9 with rules that exist but do not match: under the alive-rules
\* (Range 0..=3, Die), (Range 2..=3, Live) an Alive cell with 4 live
\* neighbours stayed Alive.
C9_WitnessUnmatched ==
    /\ Called
    /\ Pre.rule_set = RuleSet_overlap
    /\ \E p \in Positions(Pre) :
          /\ Pre.grid[p[1]][p[2]] = Alive /\ grid[p[1]][p[2]] = Alive
          /\ alive_neighbors(Pre, p[1], p[2]) = 4

\* every cell of the grid of a is Dead
AllDead(a) == \A p \in Positions(a) : a.grid[p[1]][p[2]] = Dead

\* C10: an automaton built with an all-Dead grid and a rule set whose
\* dead-rules do not match the count 0 (the default rule set is one) holds and
\* returns all-Dead grids only, for every grid size, both neighbourhood types
\* and any number of calls.
C10_AllDeadFixedPoint ==
    (AllDead(built) /\ Matching(built.rule_set.dead, 0) = {}) =>
        /\ AllDead(Automaton)
        /\ \A k \in 1 .. Len(emitted) : AllDead(emitted[k])

\* C10 witness: three calls on an all-Dead 3 x 3 grid with the default rule
\* set, every returned grid and the grid held being the initial one.
C10_Witness ==
    /\ AllDead(built)
    /\ built.rule_set = RuleSet_default
    /\ built.row_count = 3 /\ built.col_count = 3
    /\ Len(emitted) >= 3
    /\ grid = built.grid
    /\ \A k \in 1 .. Len(emitted) : emitted[k].grid = built.grid

\* the precondition of C10 is needed: with dead-rules that match the count 0
\* an all-Dead grid comes alive.
C10_WitnessZeroRule ==
    /\ AllDead(built)
    /\ Matching(built.rule_set.dead, 0) # {}
    /\ Called
    /\ \A p \in Positions(Automaton) : grid[p[1]][p[2]] = Alive

\* C11: with a rule set whose dead-rules are empty, no cell that is Dead in
\* some generation is Alive in the next one, over any number of calls: a Dead
\* cell of the grid a call read is Dead in the grid the call computed, and
\* the same holds between the grids returned one after the other.
C11_NoBirthWithoutDeadRules ==
    built.rule_set.dead = << >> =>
        /\ Called =>
              \A p \in Positions(Pre) :
                  Pre.grid[p[1]][p[2]] = Dead => grid[p[1]][p[2]] = Dead
        /\ \A k \in 1 .. Len(emitted) - 1 :
              \A p \in Positions(emitted[k]) :
                  emitted[k].grid[p[1]][p[2]] = Dead =>
                      emitted[k + 1].grid[p[1]][p[2]] = Dead

\* C11 witness: three calls under the default alive-rules and no dead-rules
\* on a grid with a Dead cell that has exactly 3 live neighbours, which the
\* default dead-rules would bring to life; it stayed Dead while a live cell
\* survived.
C11_Witness ==
    /\ built.rule_set = RuleSet_nobirth
    /\ Len(emitted) >= 3
    /\ \E p, q \in Positions(built) :
          /\ built.grid[p[1]][p[2]] = Dead
          /\ alive_neighbors(built, p[1], p[2]) = 3
          /\ emitted[2].grid[p[1]][p[2]] = Dead
          /\ grid[p[1]][p[2]] = Dead
          /\ emitted[2].grid[q[1]][q[2]] = Alive

\* the automaton a with every Dying cell of its grid replaced by an Alive one
DyingAsAlive(a) ==
    [a EXCEPT !.grid =
        [r \in DOMAIN a.grid |->
            [c \in DOMAIN a.grid[r] |->
                IF is_dying(a.grid[r][c]) THEN Alive ELSE a.grid[r][c]]]]

\* C12: a Dying neighbour counts as alive whatever its countdown: for every
\* Dead or Alive cell of the grid a call read, the alive-neighbour count and
\* the state the call gave the cell are those it gets when the Dying cells
\* around it are Alive cells instead.
C12_DyingCountsAsAlive ==
    Called =>
        \A p \in Positions(Pre) :
            Pre.grid[p[1]][p[2]] \in {Dead, Alive} =>
                LET b == DyingAsAlive(Pre)
                IN  /\ alive_neighbors(Pre, p[1], p[2])
                          = alive_neighbors(b, p[1], p[2])
                    /\ grid[p[1]][p[2]]
                          = loop_body(b, b.grid, p[1], p[2])[p[1]][p[2]]

\* C12 witness: a call under the default rule set on a grid with a Dead cell
\* whose live neighbours are exactly three Dying cells with different
\* countdowns; the cell became Alive.
C12_Witness ==
    /\ Called
    /\ Pre.rule_set = RuleSet_default
    /\ \E p \in Positions(Pre) :
          LET around == grid_traverser(Pre, p[1], p[2])
          IN  /\ Pre.grid[p[1]][p[2]] = Dead
              /\ Cardinality(around) = 3
              /\ \A q \in around : is_dying(Pre.grid[q[1]][q[2]])
              /\ \E q1, q2 \in around :
                    Pre.grid[q1[1]][q1[2]] # Pre.grid[q2[1]][q2[2]]
              /\ grid[p[1]][p[2]] = Alive

\* the grid of a has exactly a.row_count rows of a.col_count cells each, and
\* both counts are at least 1
WellFormed(a) ==
    /\ a.row_count >= 1
    /\ a.col_count >= 1
    /\ DOMAIN a.grid = 0 .. a.row_count - 1
    /\ \A r \in DOMAIN a.grid : DOMAIN a.grid[r] = 0 .. a.col_count - 1

\* C13: the builder refuses a grid that is not row_count rows of col_count
\* cells, and a row_count or col_count of 0, so every automaton a call of
\* next has run on was built with a grid of exactly row_count x col_count
\* cells and counts of at least 1.
C13_BuilderRefusesMalformed == Called => WellFormed(built)

\* the simultaneous update of a: every cell is given the state the loop body
\* computes for it from the grid of a alone
Simultaneous(a) ==
    [r \in DOMAIN a.grid |->
        [c \in DOMAIN a.grid[r] |-> loop_body(a, a.grid, r, c)[r][c]]]

\* the loop of next run over the cells in the opposite order, from the idx-th
\* pair down to the first
RECURSIVE Backwards(_, _, _)
Backwards(a, temp_grid, idx) ==
    IF idx < 0
    THEN temp_grid
    ELSE Backwards(a,
                   loop_body(a, temp_grid,
                             idx \div a.col_count, idx % a.col_count),
                   idx - 1)

\* C14: a call computes every cell from the grid as it was before the call:
\* the grid it leaves is the simultaneous update of that grid, and it is the
\* grid the loop gives when it visits the cells in the opposite order.
C14_SimultaneousUpdate ==
    Called =>
        /\ grid = Simultaneous(Pre)
        /\ grid = Backwards(Pre, Pre.grid, Pre.row_count * Pre.col_count - 1)

\* C14 witness: a call that changed a Dead or Alive cell after it had changed
\* a neighbour of that cell, visited earlier, from live to Dead or from Dead
\* to live.
C14_Witness ==
    /\ Called
    /\ \E p \in Positions(Pre) :
          /\ Pre.grid[p[1]][p[2]] \in {Dead, Alive}
          /\ grid[p[1]][p[2]] # Pre.grid[p[1]][p[2]]
          /\ \E q \in grid_traverser(Pre, p[1], p[2]) :
                /\ q[1] * Pre.col_count + q[2] < p[1] * Pre.col_count + p[2]
                /\ is_alive(Pre.grid[q[1]][q[2]]) # is_alive(grid[q[1]][q[2]])

\* C15: for an automaton built with row_count >= 1, col_count >= 1 and a grid
\* of row_count x col_count cells, in every state reached by any number of
\* calls a call of next stays in bounds: row_count - 1 and col_count - 1 do
\* not underflow, every cell the loop reads and writes and every position the
\* traverser looks up lies in [0, row_count) x [0, col_count) and in the
\* grid, and so no index panics.
C15_IndicesInBounds ==
    WellFormed(built) =>
        /\ ~index_panics(Automaton)
        /\ \A row \in 0 .. row_count - 1, col \in 0 .. col_count - 1 :
              /\ row_count - 1 >= 0
              /\ col_count - 1 >= 0
              /\ row \in DOMAIN grid
              /\ col \in DOMAIN grid[row]
              /\ \A p \in grid_indices(Automaton, row, col) :
                    /\ p[1] \in 0 .. row_count - 1
                    /\ p[2] \in 0 .. col_count - 1
                    /\ p[1] \in DOMAIN grid
                    /\ p[2] \in DOMAIN grid[p[1]]

\* C15 witness: after MaxCalls calls, a grid of at least 2 x 2 cells with a
\* live cell in its last row and last column, where the window of the
\* traverser is cut from 8 positions to 3.
C15_Witness ==
    /\ Len(emitted) = MaxCalls
    /\ row_count >= 2
    /\ col_count >= 2
    /\ neighborhood_type = "Moore"
    /\ grid[row_count - 1][col_count - 1] = Alive
    /\ Cardinality(grid_indices(Automaton, row_count - 1, col_count - 1)) = 3

\* every Dying cell of the grid g has a countdown of at least 1
TicksPositive(g) ==
    \A r \in DOMAIN g : \A c \in DOMAIN g[r] :
        is_dying(g[r][c]) => g[r][c].ticks_till_death >= 1

\* C16: from an initial grid whose Dying cells all have ticks_till_death >= 1,
\* every Dying cell of every grid the automaton holds and of every grid it
\* returns has ticks_till_death >= 1, so that ticks_till_death - 1 never goes
\* below 0 and no Dying cell with a countdown of 0 is seen.
C16_DyingTicksPositive ==
    TicksPositive(built.grid) =>
        /\ TicksPositive(grid)
        /\ \A k \in 1 .. Len(emitted) :
              /\ TicksPositive(emitted[k].grid)
              /\ \A p \in Positions(emitted[k]) :
                    is_dying(emitted[k].grid[p[1]][p[2]]) =>
                        emitted[k].grid[p[1]][p[2]].ticks_till_death - 1 >= 0

\* C16 witness: a cell built as Dying with a countdown of 2 that the second
\* call read as Dying with a countdown of 1 and turned Dead.
C16_Witness ==
    /\ Len(emitted) >= 2
    /\ \E p \in Positions(built) :
          /\ built.grid[p[1]][p[2]] = Dying(2)
          /\ emitted[2].grid[p[1]][p[2]] = Dying(1)
          /\ grid[p[1]][p[2]] = Dead

\* a has the row_count, col_count, neighborhood_type and rule_set of b, and
\* its grid has as many rows as that of b, each as long as in b
SameConfiguration(a, b) ==
    /\ a.row_count = b.row_count
    /\ a.col_count = b.col_count
    /\ a.neighborhood_type = b.neighborhood_type
    /\ a.rule_set = b.rule_set
    /\ DOMAIN a.grid = DOMAIN b.grid
    /\ \A r \in DOMAIN a.grid : DOMAIN a.grid[r] = DOMAIN b.grid[r]

\* C17: calls of next leave row_count, col_count, neighborhood_type and
\* rule_set as built, in the automaton and in every value returned, and the
\* grid held and every grid returned keep the numbers of rows and columns of
\* the initial grid, after any number of calls.
C17_ConfigurationUnchanged ==
    /\ SameConfiguration(Automaton, built)
    /\ \A k \in 1 .. Len(emitted) : SameConfiguration(emitted[k], built)

\* C17 witness: MaxCalls calls on an automaton built with the VonNeumann
\* neighbourhood, a rule set other than the default one and a grid of more
\* than one row and column whose cells the calls changed.
C17_Witness ==
    /\ Len(emitted) = MaxCalls
    /\ built.neighborhood_type = "VonNeumann"
    /\ built.rule_set = RuleSet_zero
    /\ built.row_count >= 2
    /\ built.col_count >= 2
    /\ grid # built.grid
    /\ emitted[MaxCalls].grid # built.grid

\* the generation of the k-th value returned is one higher than that of the
\* value returned before it, and for the first one than the generation built
\* with
GenerationOneHigher(k) ==
    emitted[k].generation
        = (IF k = 1 THEN built.generation ELSE emitted[k - 1].generation) + 1

\* the first dead-rule of the rule set that matches the count 0 has the
\* action Live: a Dead cell without live neighbours comes to life
BirthFromNothing(rules) ==
    /\ Matching(rules.dead, 0) # {}
    /\ rules.dead[First(Matching(rules.dead, 0))][2] = "Live"

NoDying(g) == \A r \in DOMAIN g : \A c \in DOMAIN g[r] : ~is_dying(g[r][c])

=============================================================================
